---- MODULE Spec2Model ----
(***************************************************************************)
(* One run of the Streamlit script nhl_predictor.py: the module-level API  *)
(* key check, then main() from top to bottom, with every requests.get      *)
(* split into the moment the GET is issued and the moment its outcome      *)
(* (an exception, or a response with a status and a body) comes back.      *)
(*                                                                         *)
(* Encoding of Python values.                                              *)
(*   - a dict is a function whose DOMAIN is the set of keys present; the   *)
(*     empty dict and the empty list are both <<>>;                        *)
(*   - a list is a sequence;                                               *)
(*   - ids and names are strings: None is "<None>", the integer n is       *)
(*     "<n>", and a Python str is the TLA+ string itself (so "" is the     *)
(*     empty Python string);                                               *)
(*   - winPercentage and corsiForPercentage are held in thousandths        *)
(*     (616 is the float 0.616), goalDifferential is a plain integer;      *)
(*   - a score inside predict_game is the double the code computes, held   *)
(*     as [sign, man, exp] for sign * man * 2^exp, the 53-bit man being a  *)
(*     little-endian sequence of limbs in base 2^15; every operation on    *)
(*     scores rounds as IEEE 754 does (to the nearest, ties to even);      *)
(*   - the rounded fields of a prediction (round(x, 3)) are integer        *)
(*     thousandths.                                                        *)
(***************************************************************************)
EXTENDS Integers, Sequences, FiniteSets, TLC

VARIABLES
    pc,             \* position of the script
    API_KEY,        \* os.environ.get("RAPIDAPI_KEY")
    inflight,       \* endpoints with a GET issued and not yet answered
    log,            \* calls, GETs, answers and main()'s st.* calls, in order
    last_call,      \* the latest finished call of a fetch function: what came
                    \* back, what it returned and the st.* calls it made itself
    date_str,       \* main(): date_str
    schedule,       \* main(): schedule
    standings,      \* main(): standings
    selected_idx,   \* index the user picked in the game selectbox (0: none yet)
    selected_game,  \* main(): selected_game
    prediction,     \* main(): prediction
    selected_player \* main(): selected_home_player / selected_away_player

vars == <<pc, API_KEY, inflight, log, last_call, date_str, schedule, standings,
          selected_idx, selected_game, prediction, selected_player>>

-----------------------------------------------------------------------------
(* Bounds of the model *)

MaxGames == 2
MaxRows == 2

-----------------------------------------------------------------------------
(* Python values *)

None == "<None>"
EmptyDict == <<>>
EmptyList == <<>>

\* d.get(k, default)
Get(d, k, default) == IF k \in DOMAIN d THEN d[k] ELSE default

\* bool(v) of an id: None, 0 and "" are falsy
Truthy(v) == v \notin {None, "<0>", ""}

Abs(x) == IF x < 0 THEN -x ELSE x

Digit(d) == <<"0", "1", "2", "3", "4", "5", "6", "7", "8", "9">>[d + 1]

RECURSIVE Str(_)
\* str(n) of an integer n >= 0
Str(n) == IF n < 10 THEN Digit(n) ELSE Str(n \div 10) \o Digit(n % 10)

\* s.zfill(2)
zfill2(s) == IF Len(s) < 2 THEN "0" \o s ELSE s

\* str(x) of a float x that has at most three decimals, given in thousandths
\* (Python writes the shortest repr: 0.15, 0.019, 1.0, -0.06)
FloatStr(m) ==
    LET a == Abs(m)
        frac == a % 1000
        digits == IF frac = 0 THEN "0"
                  ELSE IF frac % 100 = 0 THEN Digit(frac \div 100)
                  ELSE IF frac % 10 = 0
                       THEN Digit(frac \div 100) \o Digit((frac \div 10) % 10)
                  ELSE Digit(frac \div 100) \o Digit((frac \div 10) % 10)
                       \o Digit(frac % 10)
    IN (IF m < 0 THEN "-" ELSE "") \o Str(a \div 1000) \o "." \o digits

Front(s) == SubSeq(s, 1, Len(s) - 1)

-----------------------------------------------------------------------------
(* Python floats *)

(* Natural numbers of any size: little-endian sequences of limbs in 0..32767,
   the top limb not 0; <<>> is 0 *)
RECURSIVE Trim(_)
Trim(a) == IF a = <<>> THEN a ELSE IF a[Len(a)] = 0 THEN Trim(Front(a)) ELSE a

RECURSIVE BigOf(_)
BigOf(n) == IF n = 0 THEN <<>> ELSE <<n % 32768>> \o BigOf(n \div 32768)

RECURSIVE IntOf(_)
IntOf(a) == IF a = <<>> THEN 0 ELSE Head(a) + 32768 * IntOf(Tail(a))

Limb0(a) == IF a = <<>> THEN 0 ELSE Head(a)
Rest(a) == IF a = <<>> THEN <<>> ELSE Tail(a)

RECURSIVE AddC(_, _, _)
AddC(a, b, c) ==
    IF a = <<>> /\ b = <<>> THEN (IF c = 0 THEN <<>> ELSE <<c>>)
    ELSE LET x == Limb0(a) + Limb0(b) + c
         IN <<x % 32768>> \o AddC(Rest(a), Rest(b), x \div 32768)
BigAdd(a, b) == AddC(a, b, 0)

RECURSIVE SubC(_, _, _)
SubC(a, b, c) ==
    IF a = <<>> THEN <<>>
    ELSE LET x == Head(a) - Limb0(b) - c
         IN IF x < 0 THEN <<x + 32768>> \o SubC(Tail(a), Rest(b), 1)
            ELSE <<x>> \o SubC(Tail(a), Rest(b), 0)
\* a - b for a >= b
BigSub(a, b) == Trim(SubC(a, b, 0))

RECURSIVE CmpTop(_, _)
CmpTop(a, b) ==
    IF a = <<>> THEN 0
    ELSE IF a[Len(a)] # b[Len(b)] THEN (IF a[Len(a)] < b[Len(b)] THEN -1 ELSE 1)
    ELSE CmpTop(Front(a), Front(b))
\* -1, 0, 1 as a < b, a = b, a > b
BigCmp(a, b) ==
    IF Len(a) # Len(b) THEN (IF Len(a) < Len(b) THEN -1 ELSE 1) ELSE CmpTop(a, b)

RECURSIVE MulC(_, _, _)
MulC(a, k, c) ==
    IF a = <<>> THEN (IF c = 0 THEN <<>> ELSE <<c>>)
    ELSE LET x == Head(a) * k + c
         IN <<x % 32768>> \o MulC(Tail(a), k, x \div 32768)
\* a * k for 0 <= k < 32768
BigMulSmall(a, k) == IF k = 0 THEN <<>> ELSE MulC(a, k, 0)

RECURSIVE BigMul(_, _)
BigMul(a, b) ==
    IF a = <<>> \/ b = <<>> THEN <<>>
    ELSE LET rest == BigMul(a, Tail(b))
         IN BigAdd(BigMulSmall(a, Head(b)), IF rest = <<>> THEN <<>> ELSE <<0>> \o rest)

RECURSIVE DivC(_, _)
DivC(a, k) ==
    IF a = <<>> THEN [q |-> <<>>, r |-> 0]
    ELSE LET hi == DivC(Tail(a), k)
             x == hi.r * 32768 + Head(a)
         IN [q |-> <<x \div k>> \o hi.q, r |-> x % k]
\* quotient q and remainder r of a by k, 0 < k <= 32768
BigDivSmall(a, k) == LET d == DivC(a, k) IN [q |-> Trim(d.q), r |-> d.r]

Pow2(b) == <<1, 2, 4, 8, 16, 32, 64, 128, 256, 512, 1024, 2048, 4096, 8192, 16384>>[b + 1]

Zeros(w) == [i \in 1..w |-> 0]

\* a * 2^n
BigShl(a, n) ==
    IF a = <<>> THEN <<>>
    ELSE Zeros(n \div 15) \o BigMulSmall(a, Pow2(n % 15))

\* a \div 2^n, and whether a bit was lost
BigShr(a, n) ==
    LET w == n \div 15
        low == SubSeq(a, 1, IF w < Len(a) THEN w ELSE Len(a))
        d == BigDivSmall(SubSeq(a, w + 1, Len(a)), Pow2(n % 15))
    IN [q |-> d.q, lost |-> d.r # 0 \/ \E i \in 1..Len(low) : low[i] # 0]

RECURSIVE Bits(_)
Bits(n) == IF n = 0 THEN 0 ELSE 1 + Bits(n \div 2)
BitLen(a) == IF a = <<>> THEN 0 ELSE 15 * (Len(a) - 1) + Bits(a[Len(a)])

Odd(a) == a # <<>> /\ Head(a) % 2 = 1

\* q or q + 1: the nearest to q + 1/2 * (the last bit of s.q) + (a fraction below
\* that bit, not 0 when s.lost or sticky), a tie to the even one
RoundHalf(s, q, sticky) ==
    IF Odd(s.q) /\ (s.lost \/ sticky \/ Odd(q)) THEN BigAdd(q, <<1>>) ELSE q

RoundLast(s, sticky) == RoundHalf(s, BigShr(s.q, 1).q, sticky)

\* (a + f) / 2^n rounded to the nearest, a tie to the even neighbour; n >= 1,
\* 0 <= f < 1, sticky: f > 0
RoundShr(a, n, sticky) == RoundLast(BigShr(a, n - 1), sticky)

(* IEEE 754 doubles (no infinities, NaNs or subnormals): sign * man * 2^exp
   with 2^52 <= man < 2^53, or man = <<>> for 0.0 *)
FZero == [sign |-> 1, man |-> <<>>, exp |-> 0]

\* sign * man * 2^exp for 2^52 <= man <= 2^53
FCarry(sign, man, exp) ==
    IF BitLen(man) = 54 THEN [sign |-> sign, man |-> BigShr(man, 1).q, exp |-> exp + 1]
    ELSE [sign |-> sign, man |-> man, exp |-> exp]

\* FRound for a man of len bits
FRoundBits(sign, man, exp, sticky, len) ==
    IF len <= 53
    THEN [sign |-> sign, man |-> BigShl(man, 53 - len), exp |-> exp - (53 - len)]
    ELSE FCarry(sign, RoundShr(man, len - 53, sticky), exp + (len - 53))

\* the double nearest to sign * (man + f) * 2^exp, 0 <= f < 1, sticky: f > 0
FRound(sign, man, exp, sticky) ==
    IF man = <<>> THEN FZero ELSE FRoundBits(sign, man, exp, sticky, BitLen(man))

\* float(n) of an integer
FInt(n) == FRound(IF n < 0 THEN -1 ELSE 1, BigOf(IF n < 0 THEN -n ELSE n), 0, FALSE)

\* x / k from d, the quotient and remainder of x.man * 2^60 by k
FQuotient(x, d) == FRound(x.sign, d.q, x.exp - 60, d.r # 0)

\* x / k for an integer 0 < k <= 32768
FDivInt(x, k) == FQuotient(x, BigDivSmall(BigShl(x.man, 60), k))

\* the float written with three decimals, from its thousandths: 616 is 0.616
FMilli(n) == FDivInt(FInt(n), 1000)

FMul(x, y) == FRound(x.sign * y.sign, BigMul(x.man, y.man), x.exp + y.exp, FALSE)

FNeg(x) == IF x.man = <<>> THEN x ELSE [x EXCEPT !.sign = -x.sign]

FAdd(x, y) ==
    IF x.man = <<>> THEN y
    ELSE IF y.man = <<>> THEN x
    ELSE LET e == IF x.exp < y.exp THEN x.exp ELSE y.exp
             a == BigShl(x.man, x.exp - e)
             b == BigShl(y.man, y.exp - e)
             c == BigCmp(a, b)
         IN FRound(IF x.sign = y.sign \/ c >= 0 THEN x.sign ELSE y.sign,
                   IF x.sign = y.sign THEN BigAdd(a, b)
                   ELSE IF c >= 0 THEN BigSub(a, b) ELSE BigSub(b, a),
                   e, FALSE)

FSub(x, y) == FAdd(x, FNeg(y))
FAbs(x) == [x EXCEPT !.sign = 1]
FNotNegative(x) == x.man = <<>> \/ x.sign = 1
\* x >= y
FGe(x, y) == FNotNegative(FSub(x, y))

\* round(x, 3), in thousandths: the exact value of x to the nearest thousandth,
\* a tie to the even one
Round3(x) ==
    LET n == BigMulSmall(x.man, 1000)
    IN IF x.man = <<>> THEN 0
       ELSE IF x.exp >= 0 THEN x.sign * IntOf(BigShl(n, x.exp))
       ELSE x.sign * IntOf(RoundShr(n, -x.exp, FALSE))

-----------------------------------------------------------------------------
(* Inputs: what the API may answer and what the user may pick *)

API_HOST == "nhl-api5.p.rapidapi.com"

EnvValues == {None, "", "secret"}

Statuses == {200, 404, 500}

Dates == {<<2024, 1, 5>>}

Seasons == {"2022"}

TeamA1 == [id |-> "<1>", name |-> "A"]
TeamB2 == [id |-> "<2>", name |-> "B"]
TeamA2 == [id |-> "<2>", name |-> "A"]
TeamB1 == [id |-> "<1>", name |-> "B"]
TeamNoName1 == [id |-> "<1>"]
TeamNoName2 == [id |-> "<2>"]
TeamZeroId == [id |-> "<0>", name |-> "A"]
TeamEmptyId == [id |-> "", name |-> "A"]
TeamNullId == [id |-> None, name |-> "B"]
TeamNullName1 == [id |-> "<1>", name |-> None]
TeamNullName2 == [id |-> "<2>", name |-> None]

Side(team) == [team |-> team]

Games ==
    { [teams |-> [home |-> Side(TeamA1), away |-> Side(TeamB2)]],
      [teams |-> [home |-> Side(TeamA2), away |-> Side(TeamB1)]] }

\* a game of two teams without a name
NamelessGame == [teams |-> [home |-> Side(TeamNoName1), away |-> Side(TeamNoName2)]]

\* games that lack an id: 0 for the home id, "" for the home id and no away
\* side, null for the away id, no "team" under "home", no "teams" at all
OddGames ==
    { [teams |-> [home |-> Side(TeamZeroId), away |-> Side(TeamB2)]],
      [teams |-> [home |-> Side(TeamEmptyId)]],
      [teams |-> [home |-> Side(TeamA1), away |-> Side(TeamNullId)]],
      [teams |-> [home |-> EmptyDict, away |-> Side(TeamB2)]],
      EmptyDict }

Lists(S, n) == UNION {[1..k -> S] : k \in 0..n}

\* a game of two teams whose name is null
NullNameGame == [teams |-> [home |-> Side(TeamNullName1), away |-> Side(TeamNullName2)]]

\* every schedule of up to MaxGames games, and the nameless game, the game of
\* null names and each odd game alone
Schedules ==
    Lists(Games, MaxGames) \cup {<<g>> : g \in OddGames \cup {NamelessGame, NullNameGame}}

StandingsRows ==
    { [teamId |-> "<1>", winPercentage |-> 616, goalDifferential |-> -4],
      [teamId |-> "<2>", goalDifferential |-> -4, corsiForPercentage |-> 518],
      [teamId |-> "<1>", goalDifferential |-> 10],
      [teamId |-> "<2>", winPercentage |-> 30, corsiForPercentage |-> 920] }

PlayerLists ==
    { EmptyList,
      <<[id |-> "<0>", name |-> "Q"], [id |-> "<7>", name |-> "P"]>>,
      <<[name |-> "Q"]>>,
      <<[id |-> None, name |-> "Q"], [id |-> "<7>", name |-> "P"]>> }

ScheduleBodies == {EmptyDict} \cup {[games |-> s] : s \in Schedules}
TeamsBodies == {EmptyDict, [teams |-> <<TeamA1, TeamB2>>]}
StandingsBodies ==
    {EmptyDict} \cup {[standings |-> s] : s \in Lists(StandingsRows, MaxRows)}
StatsBodies == {[gamesPlayed |-> "<82>"]}
PlayersBodies == {[players |-> p] : p \in PlayerLists}

\* the JSON body the API sends with a status other than 200
ErrorBody == [message |-> "error"]

\* the outcomes of requests.get(...) followed by response.json(): the call
\* raises, or answers a status with a body that is not JSON, or 200 with one of
\* the bodies, or another status with the error body
Outcomes(bodies) ==
    {[raised |-> TRUE, status |-> 0, valid_json |-> FALSE, body |-> EmptyDict]}
    \cup {[raised |-> FALSE, status |-> s, valid_json |-> FALSE, body |-> EmptyDict] :
            s \in Statuses}
    \cup {[raised |-> FALSE, status |-> 200, valid_json |-> TRUE, body |-> b] : b \in bodies}
    \cup {[raised |-> FALSE, status |-> s, valid_json |-> TRUE, body |-> ErrorBody] :
            s \in Statuses \ {200}}

-----------------------------------------------------------------------------
(* Events of the log *)

Event(ev, what, arg) == [ev |-> ev, what |-> what, arg |-> arg, key |-> ""]

\* requests.get(url, headers=HEADERS, params=params)
requests_get(path, params) ==
    [ev |-> "GET", what |-> path, arg |-> params, key |-> API_KEY]

st_error(text) == Event("st.error", text, "")
st_warning(text) == Event("st.warning", text, "")

\* requests.get for path is over: it returned a response or raised
Answer(path) == Event("answer", path, "")

\* results of a fetch function: it raised, or it returned ret after the st.* calls ui
Raise == [raised |-> TRUE, ret |-> EmptyDict, ui |-> <<>>]
Return(ret, ui) == [raised |-> FALSE, ret |-> ret, ui |-> ui]

-----------------------------------------------------------------------------
(* The fetch functions, from the outcome of their requests.get *)

fetch_schedule(resp) ==
    IF resp.raised THEN Raise
    ELSE IF resp.status = 404 THEN Return(EmptyList, <<>>)
    ELSE IF resp.status # 200
         THEN Return(EmptyList,
                <<st_error("Error fetching schedule data! HTTP " \o Str(resp.status))>>)
    ELSE IF ~resp.valid_json THEN Raise
    ELSE Return(Get(resp.body, "games", EmptyList), <<>>)

\* the dict built by a loop "for x in rows: d[key(x)] = val(x)", from the keys
\* and the values of the rows: the last row of a key wins
LastWins(keys, vals) ==
    [k \in {keys[i] : i \in 1..Len(keys)} |->
        LET last == CHOOSE i \in 1..Len(keys) :
                        /\ keys[i] = k
                        /\ \A j \in (i + 1)..Len(keys) : keys[j] # k
        IN vals[last]]

fetch_teams(resp) ==
    IF resp.raised THEN Raise
    ELSE IF resp.status # 200
         THEN Return(EmptyDict,
                <<st_error("Error fetching teams data! HTTP " \o Str(resp.status))>>)
    ELSE IF ~resp.valid_json THEN Raise
    ELSE LET rows == Get(resp.body, "teams", EmptyList)
             team_id == [i \in 1..Len(rows) |-> Get(rows[i], "id", None)]
         IN Return(LastWins(team_id, rows), <<>>)

fetch_standings(resp) ==
    IF resp.raised THEN Raise
    ELSE IF resp.status # 200
         THEN Return(EmptyDict,
                <<st_error("Error fetching standings data! HTTP " \o Str(resp.status))>>)
    ELSE IF ~resp.valid_json THEN Raise
    ELSE LET rows == Get(resp.body, "standings", EmptyList)
             team_id == [i \in 1..Len(rows) |-> Get(rows[i], "teamId", None)]
             stats == [i \in 1..Len(rows) |->
                        [winPercentage |-> Get(rows[i], "winPercentage", 0),
                         goalDifferential |-> Get(rows[i], "goalDifferential", 0),
                         corsiForPercentage |-> Get(rows[i], "corsiForPercentage", 0)]]
         IN Return(LastWins(team_id, stats), <<>>)

\* the id as the f-string writes it: "<7>" is the integer 7
IdStr(id) == IF Len(id) >= 2 /\ SubSeq(id, 1, 1) = "<"
             THEN SubSeq(id, 2, Len(id) - 1) ELSE id

\* fetch_team_stats that treats only 404 as a failure
fetch_team_stats_404_only(team_id, resp) ==
    IF resp.raised THEN Raise
    ELSE IF resp.status = 404
         THEN Return(EmptyDict,
                <<st_error("Error fetching team stats for team " \o IdStr(team_id)
                           \o "! HTTP " \o Str(resp.status))>>)
    ELSE IF ~resp.valid_json THEN Raise
    ELSE Return(resp.body, <<>>)

fetch_team_stats(team_id, resp) ==
    IF resp.raised THEN Raise
    ELSE IF resp.status # 200
         THEN Return(EmptyDict,
                <<st_error("Error fetching team stats for team " \o IdStr(team_id)
                           \o "! HTTP " \o Str(resp.status))>>)
    ELSE IF ~resp.valid_json THEN Raise
    ELSE Return(resp.body, <<>>)

fetch_team_players(team_id, resp) ==
    IF resp.raised THEN Raise
    ELSE IF resp.status # 200
         THEN Return(EmptyList,
                <<st_error("Error fetching team players for team " \o IdStr(team_id)
                           \o "! HTTP " \o Str(resp.status))>>)
    ELSE IF ~resp.valid_json THEN Raise
    ELSE Return(Get(resp.body, "players", EmptyList), <<>>)

fetch_player_stats(player_id, resp) ==
    IF resp.raised THEN Raise
    ELSE IF resp.status # 200
         THEN Return(EmptyDict,
                <<st_error("Error fetching player stats for player " \o IdStr(player_id)
                           \o "! HTTP " \o Str(resp.status))>>)
    ELSE IF ~resp.valid_json THEN Raise
    ELSE Return(resp.body, <<>>)

-----------------------------------------------------------------------------
(* Prediction logic *)

\* the float literals of lines 139 and 141: 0.4, 0.3, 0.15 and 0.15
win_pct_weight == FMilli(400)
goal_diff_weight == FMilli(300)
corsi_weight == FMilli(150)
home_bonus == FMilli(150)

\* lines 140-141: "if is_home: score += 0.15"
home_advantage(score, is_home) == IF is_home THEN FAdd(score, home_bonus) ELSE score

\* calculate_team_score with a missing winPercentage taken as 0.5
calculate_team_score_half(team_stats, is_home) ==
    LET win_pct == FMilli(Get(team_stats, "winPercentage", 500))
        goal_diff == FInt(Get(team_stats, "goalDifferential", 0))
        corsi == FMilli(Get(team_stats, "corsiForPercentage", 0))
        normalized_goal_diff == FDivInt(goal_diff, 20)
        score == FAdd(FAdd(FMul(win_pct, win_pct_weight),
                           FMul(normalized_goal_diff, goal_diff_weight)),
                      FMul(corsi, corsi_weight))
    IN home_advantage(score, is_home)

\* lines 126-142, in the floating-point arithmetic of the code:
\* (win_pct * 0.4) + (normalized_goal_diff * 0.3) + (corsi * 0.15), then + 0.15
calculate_team_score(team_stats, is_home) ==
    LET win_pct == FMilli(Get(team_stats, "winPercentage", 0))
        goal_diff == FInt(Get(team_stats, "goalDifferential", 0))
        corsi == FMilli(Get(team_stats, "corsiForPercentage", 0))
        normalized_goal_diff == FDivInt(goal_diff, 20)
        score == FAdd(FAdd(FMul(win_pct, win_pct_weight),
                           FMul(normalized_goal_diff, goal_diff_weight)),
                      FMul(corsi, corsi_weight))
    IN home_advantage(score, is_home)

\* predict_game returning None
NoPrediction == [isNone |-> TRUE]

home_team_of(game) ==
    Get(Get(Get(game, "teams", EmptyDict), "home", EmptyDict), "team", EmptyDict)
away_team_of(game) ==
    Get(Get(Get(game, "teams", EmptyDict), "away", EmptyDict), "team", EmptyDict)

\* ids_missing with "and" for "or"
ids_missing_both(home_id, away_id) == ~Truthy(home_id) /\ ~Truthy(away_id)

\* line 156: "if not home_id or not away_id"
ids_missing(home_id, away_id) == ~Truthy(home_id) \/ ~Truthy(away_id)

\* predicted_winner with ">" for ">="
predicted_winner_strict(home_team, away_team, home_score, away_score) ==
    IF ~FGe(away_score, home_score) THEN Get(home_team, "name", None)
    ELSE Get(away_team, "name", None)

\* line 165
predicted_winner(home_team, away_team, home_score, away_score) ==
    IF FGe(home_score, away_score) THEN Get(home_team, "name", None)
    ELSE Get(away_team, "name", None)

\* lines 165-175
prediction_of(home_team, away_team, home_score, away_score) ==
    LET confidence == FAbs(FSub(home_score, away_score))
    IN [homeTeam |-> Get(home_team, "name", "Unknown"),
        awayTeam |-> Get(away_team, "name", "Unknown"),
        homeScore |-> Round3(home_score),
        awayScore |-> Round3(away_score),
        predictedWinner |-> predicted_winner(home_team, away_team, home_score, away_score),
        confidence |-> Round3(confidence)]

predict_game(game, standings_) ==
    LET home_team == home_team_of(game)
        away_team == away_team_of(game)
        home_id == Get(home_team, "id", None)
        away_id == Get(away_team, "id", None)
    IN IF ids_missing(home_id, away_id) THEN NoPrediction
       ELSE LET home_stats == Get(standings_, home_id, EmptyDict)
                away_stats == Get(standings_, away_id, EmptyDict)
            IN prediction_of(home_team, away_team,
                             calculate_team_score(home_stats, TRUE),
                             calculate_team_score(away_stats, FALSE))

-----------------------------------------------------------------------------
(* The script: module level *)

\* line 10: "if not API_KEY"
key_missing(key) == ~Truthy(key)

Init ==
    /\ pc = "module"
    /\ API_KEY \in EnvValues
    /\ inflight = <<>>
    /\ log = <<>>
    /\ last_call = [fn |-> "", raised |-> FALSE, status |-> 0, valid_json |-> FALSE,
                    body |-> EmptyDict, crashed |-> FALSE, ret |-> EmptyDict,
                    ui |-> <<>>]
    /\ date_str = ""
    /\ schedule = EmptyList
    /\ standings = EmptyDict
    /\ selected_idx = 0
    /\ selected_game = EmptyDict
    /\ prediction = NoPrediction
    /\ selected_player = None

\* lines 9-17, then line 297
load_module ==
    /\ pc = "module"
    /\ IF key_missing(API_KEY)
       THEN /\ log' = Append(log, st_error("RAPIDAPI_KEY environment variable not set!"))
            /\ pc' = "stopped"
       ELSE /\ pc' = "main"
            /\ UNCHANGED log
    /\ UNCHANGED <<API_KEY, inflight, last_call, date_str, schedule, standings,
                   selected_idx, selected_game, prediction, selected_player>>

-----------------------------------------------------------------------------
(* Calls of the fetch functions *)

\* retry with a second attempt after a status other than 200
retry_non_ok(resp) == ~resp.raised /\ resp.status # 200

\* whether a fetch function sends its GET again after this outcome: none does
retry(resp) == FALSE

\* main() calls the fetch function fn after the st.* calls ui, and fn calls
\* requests.get
Issue(fn, path, params, ui) ==
    /\ inflight' = Append(inflight, requests_get(path, params))
    /\ log' = log \o ui \o <<Event("call", fn, ""), requests_get(path, params)>>

CallRecord(fn, resp, r) ==
    [fn |-> fn, raised |-> resp.raised, status |-> resp.status,
     valid_json |-> resp.valid_json, body |-> resp.body, crashed |-> r.raised,
     ret |-> r.ret, ui |-> r.ui]

\* requests.get is over and the fetch function fn ends with the result r; the
\* exception of a call that raised leaves main() and ends the script, otherwise
\* main() goes on to next.pc after the st.* calls next.ui
Finish(fn, resp, r, next) ==
    LET request == inflight[Len(inflight)]
    IN IF retry(resp)
       THEN /\ log' = log \o <<Answer(request.what), request>>
            /\ UNCHANGED <<pc, inflight, last_call>>
       ELSE /\ inflight' = Front(inflight)
            /\ last_call' = CallRecord(fn, resp, r)
            /\ IF r.raised
               THEN /\ pc' = "crashed"
                    /\ log' = log \o <<Answer(request.what), Event("exception", fn, "")>>
               ELSE /\ pc' = next.pc
                    /\ log' = log \o <<Answer(request.what)>> \o next.ui

Goto(label, ui) == [pc |-> label, ui |-> ui]

-----------------------------------------------------------------------------
(* main() *)

\* f"{year}-{str(month).zfill(2)}-{str(day).zfill(2)}"
DateStr(d) == Str(d[1]) \o "-" \o zfill2(Str(d[2])) \o "-" \o zfill2(Str(d[3]))

\* str(v) of a name inside an f-string
NameStr(v) == IF v = None THEN "None" ELSE v

\* lines 180-209 and 26-32: the date input, then fetch_schedule sends its GET
main_fetch_schedule ==
    /\ pc = "main"
    /\ \E d \in Dates :
        /\ date_str' = DateStr(d)
        /\ Issue("fetch_schedule", "/nhlschedule",
                 "year=" \o Str(d[1]) \o "&month=" \o zfill2(Str(d[2]))
                    \o "&day=" \o zfill2(Str(d[3])),
                 <<Event("st.title", "NHL Outcome Predictor", ""),
                   Event("st.markdown", "Endpoints Used", ""),
                   Event("st.subheader", "Games Scheduled for " \o DateStr(d), "")>>)
    /\ pc' = "wait_schedule"
    /\ UNCHANGED <<API_KEY, last_call, schedule, standings, selected_idx,
                   selected_game, prediction, selected_player>>

NoGamesWarning ==
    "No games found for the selected date. Verify that the API has up-to-date schedule data for that date."

\* main_after_schedule without the return after the warning
main_after_schedule_no_return(sched) ==
    IF sched = EmptyList THEN Goto("fetch_teams", <<st_warning(NoGamesWarning)>>)
    ELSE Goto("fetch_teams", <<>>)

\* lines 211-213
main_after_schedule(sched) ==
    IF sched = EmptyList THEN Goto("returned", <<st_warning(NoGamesWarning)>>)
    ELSE Goto("fetch_teams", <<>>)

\* lines 33-40, then 211-215
schedule_answer ==
    /\ pc = "wait_schedule"
    /\ \E resp \in Outcomes(ScheduleBodies) :
        LET r == fetch_schedule(resp)
        IN /\ Finish("fetch_schedule", resp, r, main_after_schedule(r.ret))
           /\ schedule' = IF r.raised \/ retry(resp) THEN schedule ELSE r.ret
    /\ UNCHANGED <<API_KEY, date_str, standings, selected_idx, selected_game,
                   prediction, selected_player>>

\* lines 216 and 47-48
main_fetch_teams ==
    /\ pc = "fetch_teams"
    /\ Issue("fetch_teams", "/nhlteamlist", "", <<>>)
    /\ pc' = "wait_teams"
    /\ UNCHANGED <<API_KEY, last_call, date_str, schedule, standings,
                   selected_idx, selected_game, prediction, selected_player>>

\* lines 49-58, then 218; main() never reads the teams it assigns at line
\* 216, which are last_call.ret here
teams_answer ==
    /\ pc = "wait_teams"
    /\ \E resp \in Outcomes(TeamsBodies) :
        LET r == fetch_teams(resp)
        IN Finish("fetch_teams", resp, r, Goto("fetch_standings", <<>>))
    /\ UNCHANGED <<API_KEY, date_str, schedule, standings, selected_idx,
                   selected_game, prediction, selected_player>>

\* lines 218-220 and 65-67: the season input, then fetch_standings sends its GET
main_fetch_standings ==
    /\ pc = "fetch_standings"
    /\ \E season \in Seasons : Issue("fetch_standings", "/nhlstandings", "year=" \o season, <<>>)
    /\ pc' = "wait_standings"
    /\ UNCHANGED <<API_KEY, last_call, date_str, schedule, standings,
                   selected_idx, selected_game, prediction, selected_player>>

\* lines 68-81
standings_answer ==
    /\ pc = "wait_standings"
    /\ \E resp \in Outcomes(StandingsBodies) :
        LET r == fetch_standings(resp)
        IN /\ Finish("fetch_standings", resp, r, Goto("select_game", <<>>))
           /\ standings' = IF r.raised \/ retry(resp) THEN standings ELSE r.ret
    /\ UNCHANGED <<API_KEY, date_str, schedule, selected_idx, selected_game,
                   prediction, selected_player>>

\* lines 226-231: the f-string writes a name that is None as "None"
display_str(game, date) ==
    date \o " - " \o NameStr(Get(away_team_of(game), "name", "Unknown"))
         \o " @ " \o NameStr(Get(home_team_of(game), "name", "Unknown"))

\* lines 223-233: game_options
game_options(sched, date) == [i \in 1..Len(sched) |-> display_str(sched[i], date)]

\* lines 224-233: game_map
game_map(sched, date) ==
    LastWins(game_options(sched, date), sched)

home_id_of(game) == Get(home_team_of(game), "id", None)
away_id_of(game) == Get(away_team_of(game), "id", None)

\* lines 282-294: nothing is left after the away players
after_away_players(game) == "done"

\* lines 282-284
after_home_players(game) ==
    IF Truthy(away_id_of(game)) THEN "fetch_away_players"
    ELSE after_away_players(game)

\* lines 266-269
after_away_stats(game) ==
    IF Truthy(home_id_of(game)) THEN "fetch_home_players"
    ELSE after_home_players(game)

\* lines 261-263
after_home_stats(game) ==
    IF Truthy(away_id_of(game)) THEN "fetch_away_stats"
    ELSE after_away_stats(game)

\* after_prediction with the away team's statistics fetched first
after_prediction_away_first(game) ==
    IF Truthy(away_id_of(game)) THEN "fetch_away_stats"
    ELSE after_away_stats(game)

\* lines 250-259
after_prediction(game) ==
    IF Truthy(home_id_of(game)) THEN "fetch_home_stats"
    ELSE after_home_stats(game)

\* lines 239-247, then 250-257
main_after_prediction(p, game) ==
    IF p # NoPrediction
    THEN Goto(after_prediction(game),
              <<Event("st.subheader", "Prediction Results", ""),
                Event("st.dataframe", "prediction", ""),
                Event("st.markdown", "**Predicted Winner:** "
                                        \o NameStr(p.predictedWinner), ""),
                Event("st.markdown", "**Confidence Score:** "
                                        \o FloatStr(p.confidence), ""),
                Event("st.subheader", "Team Statistics", "")>>)
    ELSE Goto("returned",
              <<st_error("Could not generate a prediction for the selected game.")>>)

\* lines 222-257: the game selectbox, the prediction and its display
main_predict ==
    /\ pc = "select_game"
    /\ \E i \in 1..Len(schedule) :
        LET selected_game_str == game_options(schedule, date_str)[i]
            game == game_map(schedule, date_str)[selected_game_str]
            p == predict_game(game, standings)
            next == main_after_prediction(p, game)
        IN /\ selected_idx' = i
           /\ selected_game' = game
           /\ prediction' = p
           /\ pc' = next.pc
           /\ log' = log \o next.ui
    /\ UNCHANGED <<API_KEY, inflight, last_call, date_str, schedule, standings,
                   selected_player>>

\* f"{team.get('name')} Stats" and f"{team.get('name')} Players"
expander(team, what) ==
    Event("st.expander", NameStr(Get(team, "name", None)) \o what, "")

\* lines 257-259 and 88-90
main_fetch_home_stats ==
    /\ pc = "fetch_home_stats"
    /\ Issue("fetch_team_stats", "/team-statistic", "teamId=" \o IdStr(home_id_of(selected_game)),
             <<expander(home_team_of(selected_game), " Stats")>>)
    /\ pc' = "wait_home_stats"
    /\ UNCHANGED <<API_KEY, last_call, date_str, schedule, standings,
                   selected_idx, selected_game, prediction, selected_player>>

\* lines 91-94, then 260
home_stats_answer ==
    /\ pc = "wait_home_stats"
    /\ \E resp \in Outcomes(StatsBodies) :
        LET r == fetch_team_stats(home_id_of(selected_game), resp)
        IN Finish("fetch_team_stats", resp, r,
                  Goto(after_home_stats(selected_game),
                       <<Event("st.json", "home_team_stats", "")>>))
    /\ UNCHANGED <<API_KEY, date_str, schedule, standings, selected_idx,
                   selected_game, prediction, selected_player>>

\* lines 261-263 and 88-90
main_fetch_away_stats ==
    /\ pc = "fetch_away_stats"
    /\ Issue("fetch_team_stats", "/team-statistic", "teamId=" \o IdStr(away_id_of(selected_game)),
             <<expander(away_team_of(selected_game), " Stats")>>)
    /\ pc' = "wait_away_stats"
    /\ UNCHANGED <<API_KEY, last_call, date_str, schedule, standings,
                   selected_idx, selected_game, prediction, selected_player>>

\* lines 91-94, then 264-266
away_stats_answer ==
    /\ pc = "wait_away_stats"
    /\ \E resp \in Outcomes(StatsBodies) :
        LET r == fetch_team_stats(away_id_of(selected_game), resp)
        IN Finish("fetch_team_stats", resp, r,
                  Goto(after_away_stats(selected_game),
                       <<Event("st.json", "away_team_stats", ""),
                         Event("st.subheader", "Team Players and Player Statistics", "")>>))
    /\ UNCHANGED <<API_KEY, date_str, schedule, standings, selected_idx,
                   selected_game, prediction, selected_player>>

\* lines 270-279 and 285-292: the players table, the player selectbox (the user
\* picks the j-th option) and "if selected_player". The options are the "id"
\* column of the DataFrame: it is not there when no player has an "id"
\* (KeyError), and holds NaN or None for a player without one or with a null
\* one, which equals no row, so that format_func finds none (IndexError);
\* format_func reads the "name" column, not there when no player has a "name"
\* (KeyError), of the first row with the id, NaN for a player without a name.
\* The exception leaves main().
main_after_players(players, j, stats_pc, title, skip_pc) ==
    LET rows == 1..Len(players)
        table == <<Event("st.dataframe", "players", "")>>
    IN IF players = EmptyList
       THEN [pc |-> skip_pc, ui |-> <<>>, player |-> None, raised |-> FALSE]
       ELSE IF \/ \E i \in rows : Get(players[i], "id", None) = None
               \/ \A i \in rows : "name" \notin DOMAIN players[i]
            THEN [pc |-> "crashed", ui |-> table \o <<Event("exception", "main", "")>>,
                  player |-> None, raised |-> TRUE]
       ELSE LET selected == players[j].id
                first == CHOOSE i \in rows :
                            /\ players[i].id = selected
                            /\ \A k \in 1..(i - 1) : players[k].id # selected
                shown == table
                    \o <<Event("st.selectbox", NameStr(Get(players[first], "name", "nan")), "")>>
            IN IF Truthy(selected)
               THEN [pc |-> stats_pc, ui |-> shown \o <<Event("st.markdown", title, "")>>,
                     player |-> selected, raised |-> FALSE]
               ELSE [pc |-> skip_pc, ui |-> shown, player |-> selected, raised |-> FALSE]

Picks(players) == IF players = EmptyList THEN {0} ELSE 1..Len(players)

\* lines 267-269 and 101-103
main_fetch_home_players ==
    /\ pc = "fetch_home_players"
    /\ Issue("fetch_team_players", "/nhlteamplayers", "teamid=" \o IdStr(home_id_of(selected_game)),
             <<expander(home_team_of(selected_game), " Players")>>)
    /\ pc' = "wait_home_players"
    /\ UNCHANGED <<API_KEY, last_call, date_str, schedule, standings,
                   selected_idx, selected_game, prediction, selected_player>>

\* lines 104-109, then 270-279
home_players_answer ==
    /\ pc = "wait_home_players"
    /\ \E resp \in Outcomes(PlayersBodies) :
        LET r == fetch_team_players(home_id_of(selected_game), resp)
        IN \E j \in Picks(r.ret) :
            LET next == main_after_players(r.ret, j, "fetch_home_player_stats",
                            "**Home Player Stats:**", after_home_players(selected_game))
            IN /\ Finish("fetch_team_players", resp, r, next)
               /\ selected_player' =
                    IF r.raised \/ retry(resp) \/ next.raised THEN selected_player
                    ELSE next.player
    /\ UNCHANGED <<API_KEY, date_str, schedule, standings, selected_idx,
                   selected_game, prediction>>

\* lines 280 and 116-118
main_fetch_home_player_stats ==
    /\ pc = "fetch_home_player_stats"
    /\ Issue("fetch_player_stats", "/player-statistic", "playerId=" \o IdStr(selected_player), <<>>)
    /\ pc' = "wait_home_player_stats"
    /\ UNCHANGED <<API_KEY, last_call, date_str, schedule, standings,
                   selected_idx, selected_game, prediction, selected_player>>

\* lines 119-122, then 281
home_player_stats_answer ==
    /\ pc = "wait_home_player_stats"
    /\ \E resp \in Outcomes(StatsBodies) :
        LET r == fetch_player_stats(selected_player, resp)
        IN Finish("fetch_player_stats", resp, r,
                  Goto(after_home_players(selected_game),
                       <<Event("st.json", "player_stats", "")>>))
    /\ UNCHANGED <<API_KEY, date_str, schedule, standings, selected_idx,
                   selected_game, prediction, selected_player>>

\* lines 282-284 and 101-103
main_fetch_away_players ==
    /\ pc = "fetch_away_players"
    /\ Issue("fetch_team_players", "/nhlteamplayers", "teamid=" \o IdStr(away_id_of(selected_game)),
             <<expander(away_team_of(selected_game), " Players")>>)
    /\ pc' = "wait_away_players"
    /\ UNCHANGED <<API_KEY, last_call, date_str, schedule, standings,
                   selected_idx, selected_game, prediction, selected_player>>

\* lines 104-109, then 285-292
away_players_answer ==
    /\ pc = "wait_away_players"
    /\ \E resp \in Outcomes(PlayersBodies) :
        LET r == fetch_team_players(away_id_of(selected_game), resp)
        IN \E j \in Picks(r.ret) :
            LET next == main_after_players(r.ret, j, "fetch_away_player_stats",
                            "**Away Player Stats:**", after_away_players(selected_game))
            IN /\ Finish("fetch_team_players", resp, r, next)
               /\ selected_player' =
                    IF r.raised \/ retry(resp) \/ next.raised THEN selected_player
                    ELSE next.player
    /\ UNCHANGED <<API_KEY, date_str, schedule, standings, selected_idx,
                   selected_game, prediction>>

\* lines 293 and 116-118
main_fetch_away_player_stats ==
    /\ pc = "fetch_away_player_stats"
    /\ Issue("fetch_player_stats", "/player-statistic", "playerId=" \o IdStr(selected_player), <<>>)
    /\ pc' = "wait_away_player_stats"
    /\ UNCHANGED <<API_KEY, last_call, date_str, schedule, standings,
                   selected_idx, selected_game, prediction, selected_player>>

\* lines 119-122, then 294
away_player_stats_answer ==
    /\ pc = "wait_away_player_stats"
    /\ \E resp \in Outcomes(StatsBodies) :
        LET r == fetch_player_stats(selected_player, resp)
        IN Finish("fetch_player_stats", resp, r,
                  Goto(after_away_players(selected_game),
                       <<Event("st.json", "player_stats", "")>>))
    /\ UNCHANGED <<API_KEY, date_str, schedule, standings, selected_idx,
                   selected_game, prediction, selected_player>>

Next ==
    \/ load_module
    \/ main_fetch_schedule
    \/ schedule_answer
    \/ main_fetch_teams
    \/ teams_answer
    \/ main_fetch_standings
    \/ standings_answer
    \/ main_predict
    \/ main_fetch_home_stats
    \/ home_stats_answer
    \/ main_fetch_away_stats
    \/ away_stats_answer
    \/ main_fetch_home_players
    \/ home_players_answer
    \/ main_fetch_home_player_stats
    \/ home_player_stats_answer
    \/ main_fetch_away_players
    \/ away_players_answer
    \/ main_fetch_away_player_stats
    \/ away_player_stats_answer

Spec == Init /\ [][Next]_vars

-----------------------------------------------------------------------------
(* What the claims speak about *)

GETs == SelectSeq(log, LAMBDA e : e.ev = "GET")
Calls == SelectSeq(log, LAMBDA e : e.ev = "call")

\* a call of a fetch function has ended
CallEnded == last_call.fn # ""

\* the ended call got a response with a status other than 200
NonOk == CallEnded /\ ~last_call.raised /\ last_call.status # 200

\* the ended call raised: requests.get did, or response.json() on a 200 did
HttpCallRaised ==
    /\ CallEnded
    /\ last_call.raised \/ (last_call.status = 200 /\ ~last_call.valid_json)

Predicted == selected_idx # 0 /\ prediction # NoPrediction

Shown(e) == \E i \in 1..Len(log) : log[i] = e

FetchFunctions ==
    {"fetch_schedule", "fetch_teams", "fetch_standings", "fetch_team_stats",
     "fetch_team_players", "fetch_player_stats"}

\* C1 as stated: every fetch function, on every status other than 200 (404
\* included), shows a message and returns an empty result.
C1_NonOkWarnsAndReturnsEmpty ==
    NonOk => /\ last_call.ret = <<>>
             /\ ~last_call.crashed
             /\ last_call.ui # <<>>

\* C1 amended: on every status other than 200 every fetch function returns an
\* empty result and parses nothing; it shows exactly one st.error, except
\* fetch_schedule on 404, which shows nothing itself (main() then shows its
\* "No games found" warning).
C1_NonOkReturnsEmpty ==
    NonOk => /\ last_call.fn \in FetchFunctions
             /\ last_call.ret = <<>>
             /\ ~last_call.crashed
             /\ IF last_call.fn = "fetch_schedule" /\ last_call.status = 404
                THEN /\ last_call.ui = <<>>
                     /\ log[Len(log)] = st_warning(NoGamesWarning)
                ELSE /\ Len(last_call.ui) = 1
                     /\ last_call.ui[1].ev = "st.error"

C1_Witness ==
    /\ NonOk
    /\ last_call.fn = "fetch_player_stats"
    /\ last_call.status = 404
    /\ last_call.valid_json
    /\ last_call.body # EmptyDict

\* C2 as stated: when the HTTP call raises (network error, or a 200 whose body
\* is not JSON) the fetch function catches it, shows a message and returns an
\* empty result; the exception never leaves the function or ends main().
C2_ExceptionsCaught ==
    HttpCallRaised => /\ ~last_call.crashed
                      /\ pc # "crashed"
                      /\ last_call.ui # <<>>
                      /\ last_call.ret = <<>>

\* the value of field f of team id in the standings table, 0 when the team or
\* the field is not there
StatOrZero(id, f) ==
    IF id \in DOMAIN standings /\ f \in DOMAIN standings[id] THEN standings[id][f]
    ELSE 0

\* 0.4*winPercentage + 0.3*(goalDifferential/20) + 0.15*corsiForPercentage, as
\* Python evaluates it on floats
WeightedSum(id) ==
    FAdd(FAdd(FMul(FMilli(StatOrZero(id, "winPercentage")), FMilli(400)),
              FMul(FDivInt(FInt(StatOrZero(id, "goalDifferential")), 20), FMilli(300))),
         FMul(FMilli(StatOrZero(id, "corsiForPercentage")), FMilli(150)))

\* the same sum in exact arithmetic, in units of 1/20000
ExactSum(id) ==
    8 * StatOrZero(id, "winPercentage") + 300 * StatOrZero(id, "goalDifferential")
        + 3 * StatOrZero(id, "corsiForPercentage")

\* main() has just received the prediction; selected_game, standings and
\* prediction stay as they are for the rest of the run
JustPredicted == pc = "fetch_home_stats"

StatFields == {"winPercentage", "goalDifferential", "corsiForPercentage"}

\* C3: missing data counts as zero. A field absent from a standings row is
\* stored as 0, a team absent from the table (the empty table of a failed
\* fetch included) is scored like all-zero stats: 0 as away and 0.15 as home,
\* and a prediction is computed whenever both ids are there.
C3_MissingDataIsZero ==
    /\ (last_call.fn = "fetch_standings" /\ ~last_call.crashed /\ last_call.status = 200)
        => LET rows == Get(last_call.body, "standings", <<>>)
           IN \A i \in 1..Len(rows) :
                (\A j \in (i + 1)..Len(rows) : rows[j].teamId # rows[i].teamId)
                => \A f \in StatFields :
                     last_call.ret[rows[i].teamId][f]
                        = IF f \in DOMAIN rows[i] THEN rows[i][f] ELSE 0
    /\ (selected_idx # 0 /\ Truthy(home_id_of(selected_game))
                         /\ Truthy(away_id_of(selected_game)))
        => /\ prediction # NoPrediction
           /\ JustPredicted =>
                /\ prediction.homeScore
                    = Round3(FAdd(WeightedSum(home_id_of(selected_game)), FMilli(150)))
                /\ prediction.awayScore = Round3(WeightedSum(away_id_of(selected_game)))
           /\ home_id_of(selected_game) \notin DOMAIN standings
                => prediction.homeScore = 150
           /\ away_id_of(selected_game) \notin DOMAIN standings
                => prediction.awayScore = 0

\* the standings fetch failed with a 500 and the prediction is made all the same
C3_Witness ==
    /\ Predicted
    /\ last_call.fn = "fetch_standings"
    /\ last_call.status = 500
    /\ standings = EmptyDict
    /\ prediction.homeScore = 150
    /\ prediction.awayScore = 0

\* C4 as stated: the predicted winner is the homeTeam or the awayTeam field of
\* the same prediction, for every game, also one whose teams have no name.
C4_WinnerIsASide ==
    Predicted => prediction.predictedWinner \in {prediction.homeTeam, prediction.awayTeam}

\* what the GETs of a run are, in order: path, params ("*": any), and whether
\* the run may go on without it
Step(path, arg, optional) == [path |-> path, arg |-> arg, optional |-> optional]

FixedOrder ==
    << Step("/nhlschedule", "*", FALSE),
       Step("/nhlteamlist", "", FALSE),
       Step("/nhlstandings", "*", FALSE),
       Step("/team-statistic", "teamId=" \o IdStr(home_id_of(selected_game)), FALSE),
       Step("/team-statistic", "teamId=" \o IdStr(away_id_of(selected_game)), FALSE),
       Step("/nhlteamplayers", "teamid=" \o IdStr(home_id_of(selected_game)), FALSE),
       Step("/player-statistic", "*", TRUE),
       Step("/nhlteamplayers", "teamid=" \o IdStr(away_id_of(selected_game)), FALSE),
       Step("/player-statistic", "*", TRUE) >>

RECURSIVE InOrder(_, _)
\* the GETs gets are a beginning of the steps, optional steps left out or not
InOrder(gets, steps) ==
    IF gets = <<>> THEN TRUE
    ELSE IF steps = <<>> THEN FALSE
    ELSE \/ /\ Head(gets).what = Head(steps).path
            /\ Head(steps).arg \in {"*", Head(gets).arg}
            /\ InOrder(Tail(gets), Tail(steps))
         \/ /\ Head(steps).optional
            /\ InOrder(gets, Tail(steps))

Traffic == SelectSeq(log, LAMBDA e : e.ev \in {"GET", "answer"})

\* C5: at most one request is outstanding, every GET is answered before the
\* next one is issued, and the GETs follow the order schedule, team list,
\* standings, home team stats, away team stats, home players, (home player
\* stats), away players, (away player stats).
C5_OneRequestAtATimeInOrder ==
    LET traffic == Traffic
    IN /\ Len(inflight) <= 1
       /\ Len(inflight) = Len(traffic) % 2
       /\ \A i \in 1..Len(traffic) :
            IF i % 2 = 1 THEN traffic[i].ev = "GET"
            ELSE traffic[i].ev = "answer" /\ traffic[i].what = traffic[i - 1].what
       /\ InOrder(GETs, FixedOrder)

C5_Witness == pc = "done" /\ Len(GETs) = 9 /\ inflight = <<>>

CallsAndGets == SelectSeq(log, LAMBDA e : e.ev \in {"call", "GET"})

\* C6: every call of a fetch function issues exactly one GET whatever the
\* status of the response, every GET carries a non-empty API key, and with
\* RAPIDAPI_KEY unset or empty the script shows an error and stops without a GET.
C6_OneGetPerCallWithKey ==
    /\ LET both == CallsAndGets
       IN /\ Len(both) % 2 = 0
          /\ \A i \in 1..Len(both) : both[i].ev = IF i % 2 = 1 THEN "call" ELSE "GET"
    /\ \A i \in 1..Len(log) : log[i].ev = "GET" => log[i].key \notin {None, ""}
    /\ API_KEY \in {None, ""}
        => /\ GETs = <<>>
           /\ pc \in {"module", "stopped"}
           /\ pc = "stopped"
                => log = <<st_error("RAPIDAPI_KEY environment variable not set!")>>

\* the team list answered 500 and the script goes on with the standings: two
\* calls, two GETs
C6_Witness ==
    /\ pc = "fetch_standings"
    /\ last_call.fn = "fetch_teams"
    /\ last_call.status = 500
    /\ Len(Calls) = 2
    /\ Len(GETs) = 2

\* fetch_schedule ended without games: an empty games list, no "games" key,
\* or any status other than 200
NoGames ==
    /\ last_call.fn = "fetch_schedule"
    /\ ~last_call.raised
    /\ \/ last_call.status # 200
       \/ last_call.valid_json /\ Get(last_call.body, "games", <<>>) = <<>>

\* C7: without games main() shows the "No games found" warning and returns:
\* no GET but the schedule's is issued and no prediction is made or shown.
C7_NoGamesStopsTheRun ==
    NoGames => /\ pc = "returned"
               /\ schedule = <<>>
               /\ log[Len(log)] = st_warning(NoGamesWarning)
               /\ Len(GETs) = 1
               /\ selected_idx = 0
               /\ prediction = NoPrediction
               /\ ~Shown(Event("st.subheader", "Prediction Results", ""))

C7_Witness ==
    /\ NoGames
    /\ last_call.status = 200
    /\ last_call.body = EmptyDict
    /\ pc = "returned"

HomeName == Get(home_team_of(selected_game), "name", None)
AwayName == Get(away_team_of(selected_game), "name", None)
HomeScore == FAdd(WeightedSum(home_id_of(selected_game)), FMilli(150))
AwayScore == WeightedSum(away_id_of(selected_game))
ExactHomeScore == ExactSum(home_id_of(selected_game)) + 3000
ExactAwayScore == ExactSum(away_id_of(selected_game))

SameStats ==
    \A f \in StatFields :
        StatOrZero(home_id_of(selected_game), f) = StatOrZero(away_id_of(selected_game), f)

\* the winner by the scores of exact arithmetic
WinnerRule ==
    /\ ExactHomeScore >= ExactAwayScore => prediction.predictedWinner = HomeName
    /\ ExactHomeScore < ExactAwayScore => prediction.predictedWinner = AwayName
    /\ prediction.confidence >= 0
    /\ SameStats => prediction.predictedWinner = HomeName /\ prediction.confidence = 150

\* the winner by the scores the code computes: floats, each operation rounded
FloatWinnerRule ==
    /\ FGe(HomeScore, AwayScore) => prediction.predictedWinner = HomeName
    /\ ~FGe(HomeScore, AwayScore) => prediction.predictedWinner = AwayName
    /\ prediction.confidence >= 0
    /\ SameStats => prediction.predictedWinner = HomeName /\ prediction.confidence = 150

\* C8 as stated: the home team is named exactly when its score is at least the
\* away score, identical stats give the home team with confidence 0.15, and
\* the confidence equals |homeScore - awayScore| and is never negative.
C8_ConfidenceIsScoreGap ==
    Predicted => /\ WinnerRule
                 /\ prediction.confidence
                        = Abs(prediction.homeScore - prediction.awayScore)

\* C8 amended: the home team is named exactly when its score is at least the
\* away score, the two compared as the floats the code computed: equal floats
\* name the home team (identical stats give equal sums, so the home team with
\* confidence 0.15), while scores equal in exact arithmetic only can name the
\* away team. The confidence is the gap of the unrounded scores rounded to
\* three decimals, never negative and within 0.001 of the gap of homeScore
\* and awayScore.
C8_HomeWinsTies ==
    (Predicted /\ JustPredicted) =>
        /\ FloatWinnerRule
        /\ prediction.confidence = Round3(FAbs(FSub(HomeScore, AwayScore)))
        /\ Abs(prediction.confidence
                 - Abs(prediction.homeScore - prediction.awayScore)) <= 1

\* a tie of the floats between two teams with different stats and different
\* names
C8_Witness ==
    /\ Predicted
    /\ JustPredicted
    /\ HomeScore = AwayScore
    /\ ~SameStats
    /\ HomeName # AwayName
    /\ prediction.predictedWinner = HomeName

TailPaths == {"/team-statistic", "/nhlteamplayers", "/player-statistic"}

\* C9: predict_game returns None exactly when the home id or the away id is
\* missing, None, 0 or ""; main() then shows the error and returns without a
\* team-stats, players or player-stats GET; otherwise the prediction is shown
\* before any such GET.
C9_NoPredictionIffIdMissing ==
    selected_idx # 0 =>
        /\ prediction = NoPrediction
            <=> \/ home_id_of(selected_game) \in {None, "<0>", ""}
                \/ away_id_of(selected_game) \in {None, "<0>", ""}
        /\ prediction = NoPrediction
            => /\ pc = "returned"
               /\ log[Len(log)]
                    = st_error("Could not generate a prediction for the selected game.")
               /\ \A i \in 1..Len(log) : log[i].ev = "GET" => log[i].what \notin TailPaths
        /\ prediction # NoPrediction
            => \E k \in 1..Len(log) :
                /\ log[k] = Event("st.subheader", "Prediction Results", "")
                /\ Shown(Event("st.markdown", "**Predicted Winner:** "
                                    \o NameStr(prediction.predictedWinner), ""))
                /\ \A i \in 1..Len(log) :
                    (log[i].ev = "GET" /\ log[i].what \in TailPaths) => i > k

\* the home id is 0 and the away id is there
C9_Witness ==
    /\ selected_idx # 0
    /\ prediction = NoPrediction
    /\ home_id_of(selected_game) = "<0>"
    /\ Truthy(away_id_of(selected_game))
    /\ pc = "returned"

\* C10 as stated: the i-th option of the dropdown resolves to the i-th game of
\* the schedule, also when two games have the same display string.
C10_OptionResolvesToItsGame ==
    selected_idx # 0 => selected_game = schedule[selected_idx]

====
